---- MODULE Spec2Model ----
(***************************************************************************)
(* A model of the move tree of centichess                                  *)
(* (src/components/moves/MoveTree.js) and of its analysis Engine.          *)
(*                                                                         *)
(* Nodes are JavaScript objects: they are modelled as records on a heap,   *)
(* addressed by <<build generation, allocation index>>, so that object     *)
(* identity (===) and id equality (n.id === node.id) stay distinct.        *)
(* moveNumber is stored in half-move units: 1 -> 2, 1.5 -> 3, 2 -> 4, ...;  *)
(* null -> 0.                                                              *)
(*                                                                         *)
(* The Engine's workers and the promises of its evaluate calls are kept in *)
(* two sequences and referred to by position; 0 is the null reference.     *)
(***************************************************************************)
EXTENDS Integers, Sequences, FiniteSets, TLC

\* ------------------------------------------------------------------ bounds
\* longest replay history handed to buildFromPGN
MaxPlies == 2
\* largest value the id counter reaches (nodes created by addMove in one run)
MaxAdds == 2
\* number of buildFromPGN calls in one run
MaxBuilds == 2
\* number of nodes of one tree that analysis results are delivered for
MaxClassified == 1
\* largest value the id counter reaches while the cursor moves or results arrive
BrowseAdds == 1
\* largest value the id counter reaches while the cursor is moved and queried
NavAdds == 2
\* longest game, in plies, of an annotated notation text
MaxTextPlies == 3
\* number of promises evaluate creates in one run
MaxPromises == 3
\* number of Worker objects created in one run
MaxWorkers == 4
\* number of Worker constructions or posts that throw in a row
MaxFailures == 3
\* largest retry counter a run of evaluate is followed to
MaxFallen == 4

\* ----------------------------------------------------------------- strings
RECURSIVE Sanitize(_)
\* san.replace(/[+#]/g, m => m === '+' ? 'check' : 'mate')
Sanitize(s) ==
    IF Len(s) = 0 THEN ""
    ELSE (IF SubSeq(s, 1, 1) = "+" THEN "check"
          ELSE IF SubSeq(s, 1, 1) = "#" THEN "mate"
          ELSE SubSeq(s, 1, 1)) \o Sanitize(SubSeq(s, 2, Len(s)))

\* `${prefix}_${moveNumber}_${isWhiteTurn ? 'w' : 'b'}_${sanitized san}`
BaseId(prefix, moveNumber, isWhiteTurn, san) ==
    prefix \o "_" \o ToString(moveNumber) \o "_"
           \o (IF isWhiteTurn THEN "w" ELSE "b") \o "_" \o Sanitize(san)

\* `${id}_${counter}`
WithCounter(id, counter) == id \o "_" \o ToString(counter)

RootId == "root"
\* an id no node ever carries
UnknownId == "nope"
\* undefined / absent id (parentId of a node that has none)
NoId == ""

\* ------------------------------------------------------------------- moves
\* the structured move of a node that has none (root)
NoMove == [from |-> "", to |-> "", promotion |-> "", san |-> "", color |-> ""]

WhiteMoves ==
    { [from |-> "e7", to |-> "e8", promotion |-> "q", san |-> "e8=Q", color |-> "w"],
      [from |-> "e7", to |-> "e8", promotion |-> "n", san |-> "e8=N+", color |-> "w"] }

BlackMoves ==
    { [from |-> "e7", to |-> "e5", promotion |-> "", san |-> "e5", color |-> "b"],
      [from |-> "d8", to |-> "h4", promotion |-> "", san |-> "Qh4#", color |-> "b"] }

Moves == WhiteMoves \cup BlackMoves

\* ------------------------------------------------------ rules engine (Chess)
\* A position encoding is the list of moves played from the start position:
\* it fixes the side to move and the full-move number, as a FEN does.
NullFen == [valid |-> FALSE, played |-> <<>>]
StartFen == [valid |-> TRUE, played |-> <<>>]

ChessTurn(fen) == IF Len(fen.played) % 2 = 0 THEN "w" ELSE "b"
ChessMoveNumber(fen) == (Len(fen.played) \div 2) + 1
ChessLegal(fen, m) == fen.valid /\ m # NoMove /\ m.color = ChessTurn(fen)
ChessMove(fen, m) ==
    IF ChessLegal(fen, m)
    THEN [valid |-> TRUE, played |-> Append(fen.played, m.from \o m.to \o m.promotion)]
    ELSE NullFen

RECURSIVE ChessReplay(_, _)
\* the position reached by applying a list of moves in order
ChessReplay(fen, ms) ==
    IF ms = <<>> THEN fen ELSE ChessReplay(ChessMove(fen, Head(ms)), Tail(ms))

RECURSIVE LegalLines(_, _)
\* the replay histories of length n that the rules engine accepts from fen
LegalLines(fen, n) ==
    IF n = 0 THEN {<<>>}
    ELSE UNION { { <<m>> \o rest : rest \in LegalLines(ChessMove(fen, m), n - 1) }
                 : m \in { x \in Moves : ChessLegal(fen, x) } }

Histories == UNION { LegalLines(StartFen, n) : n \in 0..MaxPlies }

\* ------------------------------------------------------- analysis results
\* the `move` argument of updateClassification: {classification: {type}, lines}
NoResult == [classification |-> [type |-> ""], lines |-> <<>>]

\* a result without candidate lines
BestResult == [classification |-> [type |-> "best"], lines |-> <<>>]
\* a result whose top-ranked line (id 1) comes second and carries no type
BlunderResult ==
    [classification |-> [type |-> "blunder"],
     lines |-> << [id |-> 2, score |-> 90, type |-> "mate"],
                  [id |-> 1, score |-> 3 - 10, type |-> ""] >>]

\* a result whose only line is not the top-ranked one
InaccuracyResult ==
    [classification |-> [type |-> "inaccuracy"],
     lines |-> << [id |-> 2, score |-> 15, type |-> "cp"] >>]
\* a result whose top-ranked line carries a type
BrilliantResult ==
    [classification |-> [type |-> "brilliant"],
     lines |-> << [id |-> 1, score |-> 4, type |-> "mate"],
                  [id |-> 2, score |-> 250, type |-> "cp"] >>]

AnalysisResults == {BestResult, BlunderResult}
\* the results of a game review
ReviewResults == {BestResult, BlunderResult, InaccuracyResult, BrilliantResult}

\* ------------------------------------------------------------ clock records
\* clockData is a JavaScript array that may have holes; an entry is
\* {moveIndex, color, clock} or a hole.
ClockHole == [hole |-> TRUE, moveIndex |-> -1, color |-> "", clock |-> ""]
\* {moveIndex, color, clock}
ClockRecord(moveIndex, color, clock) ==
    [hole |-> FALSE, moveIndex |-> moveIndex, color |-> color, clock |-> clock]
\* the record of ply i (0-based): White moves on even plies
ClockRec(i, c) ==
    [hole |-> FALSE, moveIndex |-> i,
     color |-> IF i % 2 = 0 THEN "white" ELSE "black", clock |-> c]

RECURSIVE ClockFindFrom(_, _, _)
\* clockData.find(c => c.moveIndex === index), scanning from position j:
\* find visits holes as undefined, and reading .moveIndex of one throws
ClockFindFrom(clockData, index, j) ==
    IF j > Len(clockData) THEN [threw |-> FALSE, found |-> FALSE, clock |-> ""]
    ELSE IF clockData[j].hole THEN [threw |-> TRUE, found |-> FALSE, clock |-> ""]
    ELSE IF clockData[j].moveIndex = index
         THEN [threw |-> FALSE, found |-> TRUE, clock |-> clockData[j].clock]
    ELSE ClockFindFrom(clockData, index, j + 1)

ClockFind(clockData, index) == ClockFindFrom(clockData, index, 1)

\* -------------------------------------------------- extractClockAnnotations
\* The move text is modelled as the sequence of its lexical items, [kind, text]:
\*   "num"  a move number with its dot ("1."),
\*   "san"  a move token,
\*   "clk"  a comment {...[%clk v]...}, text = the captured v,
\*   "note" a comment without a clock annotation.
\* An item's offset in the text is its position in the sequence.
IsComment(item) == item.kind \in {"clk", "note"}

RECURSIVE TrimLeft(_)
TrimLeft(s) ==
    IF Len(s) > 0 /\ SubSeq(s, 1, 1) = " " THEN TrimLeft(SubSeq(s, 2, Len(s))) ELSE s

RECURSIVE TrimRight(_)
TrimRight(s) ==
    IF Len(s) > 0 /\ SubSeq(s, Len(s), Len(s)) = " "
    THEN TrimRight(SubSeq(s, 1, Len(s) - 1)) ELSE s

\* String.prototype.trim
Trim(s) == TrimRight(TrimLeft(s))

\* comments that count as clock annotations although they carry none
ClockMatches_AnyComment(moveText) ==
    LET at == SelectSeq([p \in 1..Len(moveText) |-> p], LAMBDA p : IsComment(moveText[p]))
    IN [j \in 1..Len(at) |-> [index |-> at[j], value |-> moveText[at[j]].text]]

\* [...moveText.matchAll(clockRegex)]: the clock annotations in text order,
\* each with its offset and its captured value
ClockMatches(moveText) ==
    LET at == SelectSeq([p \in 1..Len(moveText) |-> p], LAMBDA p : moveText[p].kind = "clk")
    IN [j \in 1..Len(at) |-> [index |-> at[j], value |-> moveText[at[j]].text]]

\* a tokenizer that reads White's move only
MoveExec_WhiteOnly(moveText, lastIndex) ==
    LET n == Len(moveText)
        starts == { p \in lastIndex..(n - 1) :
                      moveText[p].kind = "num" /\ ~IsComment(moveText[p + 1]) }
        index == CHOOSE p \in starts : \A q \in starts : p <= q
    IN IF starts = {} THEN [found |-> FALSE, index |-> 0, white |-> 0, black |-> 0,
                            lastIndex |-> n + 1]
       ELSE [found |-> TRUE, index |-> index, white |-> index + 1, black |-> 0,
             lastIndex |-> index + 2]

\* moveRegex.exec(moveText) from lastIndex on: a move number directly followed
\* by a token (White's), an optional comment, an optional second token
\* (Black's) and, after that one, an optional comment
MoveExec(moveText, lastIndex) ==
    LET n == Len(moveText)
        starts == { p \in lastIndex..(n - 1) :
                      moveText[p].kind = "num" /\ ~IsComment(moveText[p + 1]) }
        index == CHOOSE p \in starts : \A q \in starts : p <= q
        white == index + 1
        afterWhite == IF white + 1 <= n /\ IsComment(moveText[white + 1])
                      THEN white + 2 ELSE white + 1
        hasBlack == afterWhite <= n /\ ~IsComment(moveText[afterWhite])
        afterBlack == IF afterWhite + 1 <= n /\ IsComment(moveText[afterWhite + 1])
                      THEN afterWhite + 2 ELSE afterWhite + 1
    IN IF starts = {} THEN [found |-> FALSE, index |-> 0, white |-> 0, black |-> 0,
                            lastIndex |-> n + 1]
       ELSE [found |-> TRUE, index |-> index, white |-> white,
             black |-> IF hasBlack THEN afterWhite ELSE 0,
             lastIndex |-> IF hasBlack THEN afterBlack ELSE afterWhite]

\* match.index + match[0].indexOf(token): the first place of the match where
\* the token's text stands
TokenPos(moveText, match, token) ==
    LET same == { q \in match.index..token : moveText[q].text = moveText[token].text }
    IN CHOOSE q \in same : \A r \in same : q <= r

RECURSIVE FirstAfter(_, _, _)
\* for (let i = clockIndex; i < clockMatches.length; i++)
\*     if (clockMatches[i].index > pos) ...: the first such i, or -1
FirstAfter(clockMatches, i, pos) ==
    IF i >= Len(clockMatches) THEN -1
    ELSE IF clockMatches[i + 1].index > pos THEN i
    ELSE FirstAfter(clockMatches, i + 1, pos)

\* clockData[i] = rec on a JavaScript array: the array grows, leaving holes
ArraySet(arr, i, rec) ==
    IF i < Len(arr) THEN [arr EXCEPT ![i + 1] = rec]
    ELSE arr \o [k \in 1..(i - Len(arr)) |-> ClockHole] \o <<rec>>

\* the if (whiteMove) / if (blackMove) block for a token at offset pos
TakeClock(clockMatches, st, pos, color) ==
    LET hasNext == st.clockIndex < Len(clockMatches)
        i == FirstAfter(clockMatches, st.clockIndex, pos)
    IN IF hasNext /\ clockMatches[st.clockIndex + 1].index > pos /\ i # -1
       THEN [st EXCEPT !.clockData = ArraySet(@, st.moveIndex,
                           ClockRecord(st.moveIndex, color, Trim(clockMatches[i + 1].value))),
                       !.clockIndex = i + 1,
                       !.moveIndex = @ + 1]
       ELSE [st EXCEPT !.moveIndex = @ + 1]

RECURSIVE ExtractLoop(_, _, _)
\* the while loop over the matches of moveRegex
ExtractLoop(moveText, clockMatches, st) ==
    LET match == MoveExec(moveText, st.lastIndex)
        white == TakeClock(clockMatches, st, TokenPos(moveText, match, match.white), "white")
        black == IF match.black = 0 THEN white
                 ELSE TakeClock(clockMatches, white,
                                TokenPos(moveText, match, match.black), "black")
    IN IF ~match.found THEN st
       ELSE ExtractLoop(moveText, clockMatches,
                        [black EXCEPT !.lastIndex = match.lastIndex, !.scanned = @ + 1])

\* extractClockAnnotations(pgn): clockData, and the number of matches of
\* moveRegex that were scanned
ExtractClockAnnotations(moveText) ==
    LET clockMatches == ClockMatches(moveText)
        st == [lastIndex |-> 1, moveIndex |-> 0, clockIndex |-> 0,
               clockData |-> <<>>, scanned |-> 0]
    IN IF Len(clockMatches) = 0 THEN st
       ELSE ExtractLoop(moveText, clockMatches, st)

\* -------------------------------------------------------------------- state
VARIABLES
    heap,         \* node objects by address
    mainline,     \* this.mainline: addresses, root first
    nodeMap,      \* this.nodeMap: id -> address
    currentNode,  \* this.currentNode
    final,        \* this.final
    idCounter,    \* this.idCounter
    currentIndex, \* this.currentIndex
    gen,          \* number of buildFromPGN calls so far (allocation generation)
    last,         \* the last call: operation, arguments, exit taken, result
    obtained,     \* node ids the analysis pipeline holds, with the build they were read in
    busy,           \* Engine: this.busy
    currentResolve, \* Engine: this.currentResolve, the promise it resolves or NoRef
    currentReject,  \* Engine: this.currentReject, the promise it rejects or NoRef
    currentDepth,   \* Engine: this.currentDepth
    worker,         \* Engine: this.worker, a position of workers or NoRef
    workers,        \* the Worker objects created so far
    promises        \* the promises created by evaluate so far

\* the state of the Engine and of its workers and promises
engine == <<busy, currentResolve, currentReject, currentDepth, worker, workers,
            promises>>

\* the state outside the move tree
env == <<obtained, engine>>

\* the state of the move tree
tree == <<heap, mainline, nodeMap, currentNode, final, idCounter, currentIndex, gen>>

vars == <<heap, mainline, nodeMap, currentNode, final, idCounter, currentIndex, gen, last, env>>

\* the null reference
Null == <<0, 0>>

\* null for the Engine's references
NoRef == 0

\* a Worker after new Worker(path), the uci and setoption posts and the
\* registration of the error listeners: the message listeners registered on
\* it (each named by the promise its closure resolves) and the searches it
\* was told to run and has not yet finished (each named by the promise of
\* the evaluate call that posted it)
WorkerObject == [alive |-> TRUE, listeners |-> <<>>, searches |-> <<>>]

\* moveNumber that forgets Black's half move
NodeMoveNumber_NoHalf(moveNumber, isWhiteTurn) == 2 * moveNumber

\* isWhiteTurn ? moveNumber : moveNumber + 0.5, in half-move units
NodeMoveNumber(moveNumber, isWhiteTurn) ==
    IF isWhiteTurn THEN 2 * moveNumber ELSE 2 * moveNumber + 1

\* a node object
Node(id, moveNumber, move, fen, isMainline, parentIndex, parentId, clock) ==
    [id |-> id, moveNumber |-> moveNumber, san |-> move.san, move |-> move,
     fen |-> fen, children |-> <<>>, isMainline |-> isMainline,
     parentIndex |-> parentIndex, parentId |-> parentId, clock |-> clock,
     classification |-> "", evaluatedMove |-> NoResult,
     evalScore |-> 0, evalType |-> ""]

\* the record of a call
Call(op, move, id, via, node, path, moves) ==
    [op |-> op, move |-> move, id |-> id, via |-> via, node |-> node,
     path |-> path, moves |-> moves]

\* mainline[i] with the code's 0-based index
At(i) == mainline[i + 1]

\* the next free address of the current generation
NewAddr == <<gen, Cardinality({a \in DOMAIN heap : a[1] = gen}) + 1>>

\* Map.prototype.set
MapSet(map, key, value) ==
    [k \in (DOMAIN map) \cup {key} |-> IF k = key THEN value ELSE map[k]]

\* constructor
Init ==
    /\ heap = (<<0, 1>> :> Node(RootId, 2, NoMove, NullFen, TRUE, -1, NoId, ""))
    /\ mainline = << <<0, 1>> >>
    /\ nodeMap = (RootId :> <<0, 1>>)
    /\ currentNode = <<0, 1>>
    /\ final = Null
    /\ idCounter = 0
    /\ currentIndex = 0
    /\ gen = 0
    /\ last = Call("new", NoMove, NoId, "done", Null, <<>>, <<>>)
    /\ obtained = {}
    /\ busy = FALSE
    /\ currentResolve = NoRef
    /\ currentReject = NoRef
    /\ currentDepth = 0
    /\ worker = 1
    /\ workers = <<WorkerObject>>
    /\ promises = <<>>

\* ------------------------------------------------------------ buildFromPGN
RECURSIVE BuildLoop(_, _, _, _)
\* the for loop over history.entries(), from 0-based index on; st carries the
\* tree under construction, the loop variables and the replaying engine
BuildLoop(history, clockData, index, st) ==
    IF index >= Len(history) THEN st
    ELSE
      LET move == history[index + 1]
          nodeId == BaseId("move", st.moveNumber, st.isWhiteTurn, move.san)
          clockInfo == ClockFind(clockData, index)
          fen == ChessMove(st.fen, move)
          addr == <<gen + 1, index + 2>>
          node == Node(nodeId, NodeMoveNumber(st.moveNumber, st.isWhiteTurn),
                       move, fen, TRUE, Len(st.mainline) - 1, NoId,
                       IF clockInfo.found THEN clockInfo.clock ELSE "")
      IN IF clockInfo.threw THEN [st EXCEPT !.threw = TRUE]
         ELSE BuildLoop(history, clockData, index + 1,
                [st EXCEPT !.heap = (addr :> node) @@ @,
                           !.mainline = Append(@, addr),
                           !.nodeMap = MapSet(@, nodeId, addr),
                           !.moveNumber = IF st.isWhiteTurn THEN @ ELSE @ + 1,
                           !.isWhiteTurn = ~@,
                           !.fen = fen,
                           !.final = addr])

\* a rebuild that registers the new nodes in the old id index
BuildResult_KeepsIndex(history, clockData) ==
    LET root == <<gen + 1, 1>>
    IN BuildLoop(history, clockData, 0,
         [heap |-> (root :> Node(RootId, 0, NoMove, StartFen, TRUE, -1, NoId, "")),
          mainline |-> <<root>>,
          nodeMap |-> MapSet(nodeMap, RootId, root),
          moveNumber |-> 1, isWhiteTurn |-> TRUE,
          fen |-> StartFen, final |-> final, threw |-> FALSE])

\* the tree after buildFromPGN(pgn, chess), where the engine's replay of pgn
\* is history and extractClockAnnotations(pgn) is clockData
BuildResult(history, clockData) ==
    LET root == <<gen + 1, 1>>
    IN BuildLoop(history, clockData, 0,
         [heap |-> (root :> Node(RootId, 0, NoMove, StartFen, TRUE, -1, NoId, "")),
          mainline |-> <<root>>,
          nodeMap |-> (RootId :> root),
          moveNumber |-> 1, isWhiteTurn |-> TRUE,
          fen |-> StartFen, final |-> final, threw |-> FALSE])

\* the effect of buildFromPGN on the tree
BuildTree(history, clockData) ==
    /\ gen < MaxBuilds
    /\ LET r == BuildResult(history, clockData)
           \* an object of the old tree stays alive only through this.final
           kept == { a \in DOMAIN heap : a = r.final }
       IN /\ heap' = [a \in (DOMAIN r.heap) \cup kept |->
                        IF a \in DOMAIN r.heap THEN r.heap[a] ELSE heap[a]]
          /\ mainline' = r.mainline
          /\ nodeMap' = r.nodeMap
          /\ final' = r.final
          /\ currentNode' = r.mainline[1]
          /\ currentIndex' = 0
          /\ gen' = gen + 1
    /\ UNCHANGED <<idCounter, env>>

BuildFromPGN(history, clockData) ==
    /\ BuildTree(history, clockData)
    /\ last' = Call("buildFromPGN", NoMove, NoId,
                    IF BuildResult(history, clockData).threw THEN "threw" ELSE "done",
                    Null, <<>>, history)

\* chessInstance.loadPgn(pgn); chessInstance.history(): the moves of the text
TextHistory(pgn) ==
    LET sans == SelectSeq(pgn, LAMBDA item : item.kind = "san")
    IN [i \in 1..Len(sans) |-> CHOOSE m \in Moves : m.san = sans[i].text]

\* buildFromPGN(pgn) on a notation text; the call record keeps the text and
\* what extractClockAnnotations made of it
LoadPGN(pgn) ==
    \E x \in {ExtractClockAnnotations(pgn)} : \E history \in {TextHistory(pgn)} :
       /\ BuildTree(history, x.clockData)
       /\ last' = Call("buildFromPGN", NoMove, NoId,
                       IF BuildResult(history, x.clockData).threw THEN "threw" ELSE "done",
                       Null, <<>>, history)
                  @@ [pgn |-> pgn, clockData |-> x.clockData, scanned |-> x.scanned]

\* ------------------------------------------------------------------ lookups
\* a lookup that falls back to the root when the id is unknown
MapGet_RootFallback(id) == IF id \in DOMAIN nodeMap THEN nodeMap[id] ELSE mainline[1]

\* this.nodeMap.get(id)
MapGet(id) == IF id \in DOMAIN nodeMap THEN nodeMap[id] ELSE Null

\* the mainline positions (0-based) whose node has the id of node a
IndexesOf(a) == { i \in 0..(Len(mainline) - 1) : heap[At(i)].id = heap[a].id }

\* getNodeIndex: this.mainline.findIndex(n => n.id === node.id)
GetNodeIndex(a) ==
    IF IndexesOf(a) = {} THEN -1
    ELSE CHOOSE i \in IndexesOf(a) : \A j \in IndexesOf(a) : i <= j

\* the (from, to, promotion) comparison of findExistingMove
SameMove(m1, m2) ==
    /\ m1.from = m2.from
    /\ m1.to = m2.to
    /\ m1.promotion = m2.promotion

RECURSIVE FindChild(_, _)
\* children.find(child => same move): the first match, or null
FindChild(children, move) ==
    IF children = <<>> THEN Null
    ELSE IF heap[Head(children)].move # NoMove /\ SameMove(heap[Head(children)].move, move)
         THEN Head(children)
    ELSE FindChild(Tail(children), move)

\* findExistingMove that looks at the mainline successor only
FindExistingMove_MainlineOnly(parent, move) ==
    LET parentIndex == GetNodeIndex(parent)
    IN IF /\ heap[parent].isMainline
          /\ parentIndex # -1
          /\ parentIndex + 1 < Len(mainline)
          /\ SameMove(heap[At(parentIndex + 1)].move, move)
       THEN At(parentIndex + 1)
       ELSE Null

\* findExistingMove that looks at the children only
FindExistingMove_ChildrenOnly(parent, move) == FindChild(heap[parent].children, move)

\* findExistingMove(parentNode, move)
FindExistingMove(parent, move) ==
    LET parentIndex == GetNodeIndex(parent)
        onMainline ==
            /\ heap[parent].isMainline
            /\ parentIndex # -1
            /\ parentIndex + 1 < Len(mainline)
            /\ heap[At(parentIndex + 1)].move # NoMove
            /\ SameMove(heap[At(parentIndex + 1)].move, move)
    IN IF onMainline THEN At(parentIndex + 1)
       ELSE FindChild(heap[parent].children, move)

\* ------------------------------------------------------------------ addMove
\* isMainline that forgets to ask whether the parent is the mainline tip
NewIsMainline_AnyMainlineParent(parent) == heap[parent].isMainline

\* isMainline of the node addMove is about to create under parent
NewIsMainline(parent) ==
    heap[parent].isMainline /\ GetNodeIndex(parent) = Len(mainline) - 1

\* an id built as buildFromPGN builds it, for variations too
NewNodeId_NoCounter(parent, move, counter) ==
    BaseId("move", ChessMoveNumber(heap[parent].fen),
           ChessTurn(heap[parent].fen) = "w", move.san)

\* the id addMove gives the new node, idCounter already incremented to counter
NewNodeId(parent, move, counter) ==
    LET isWhiteTurn == ChessTurn(heap[parent].fen) = "w"
        moveNumber == ChessMoveNumber(heap[parent].fen)
        isMainline == NewIsMainline(parent)
        nodeId == IF isMainline
                  THEN BaseId("move", moveNumber, isWhiteTurn, move.san)
                  ELSE WithCounter(BaseId("var", moveNumber, isWhiteTurn, move.san), counter)
    IN IF isMainline /\ nodeId \in DOMAIN nodeMap
       THEN WithCounter(nodeId, counter)
       ELSE nodeId

\* a node flagged isMainline: true, as buildFromPGN flags its nodes
NewNode_AlwaysMainline(parent, parentId, move, counter) ==
    Node(NewNodeId(parent, move, counter),
         NodeMoveNumber(ChessMoveNumber(heap[parent].fen), ChessTurn(heap[parent].fen) = "w"),
         move, ChessMove(heap[parent].fen, move), TRUE,
         IF NewIsMainline(parent) THEN GetNodeIndex(parent) ELSE -1, parentId, "")

\* the node object addMove creates
NewNode(parent, parentId, move, counter) ==
    LET isWhiteTurn == ChessTurn(heap[parent].fen) = "w"
        moveNumber == ChessMoveNumber(heap[parent].fen)
        isMainline == NewIsMainline(parent)
    IN Node(NewNodeId(parent, move, counter), NodeMoveNumber(moveNumber, isWhiteTurn),
            move, ChessMove(heap[parent].fen, move), isMainline,
            IF isMainline THEN GetNodeIndex(parent) ELSE -1,
            parentId, "")

\* addMove(move, parentId): unknown parent
AddMoveMiss(move, parentId) ==
    /\ MapGet(parentId) = Null
    /\ UNCHANGED env
    /\ last' = Call("addMove", move, parentId, "miss", Null, <<>>, <<>>)
    /\ UNCHANGED <<heap, mainline, nodeMap, currentNode, final, idCounter, currentIndex, gen>>

\* addMove(move, parentId): the move is already recorded under the parent
AddMoveExisting(move, parentId) ==
    /\ MapGet(parentId) # Null
    /\ FindExistingMove(MapGet(parentId), move) # Null
    /\ UNCHANGED env
    /\ last' = Call("addMove", move, parentId, "existing",
                    FindExistingMove(MapGet(parentId), move), <<>>, <<>>)
    /\ UNCHANGED <<heap, mainline, nodeMap, currentNode, final, idCounter, currentIndex, gen>>

\* addMove(move, parentId): chess.load(parent.fen) throws on the null fen of
\* the constructor's root
AddMoveThrow(move, parentId) ==
    /\ MapGet(parentId) # Null
    /\ FindExistingMove(MapGet(parentId), move) = Null
    /\ ~heap[MapGet(parentId)].fen.valid
    /\ UNCHANGED env
    /\ last' = Call("addMove", move, parentId, "threw", Null, <<>>, <<>>)
    /\ UNCHANGED <<heap, mainline, nodeMap, currentNode, final, idCounter, currentIndex, gen>>

\* addMove(move, parentId): a new node is created
AddMoveCreate(move, parentId) ==
    LET parent == MapGet(parentId)
        addr == NewAddr
        node == NewNode(parent, parentId, move, idCounter + 1)
    IN /\ parent # Null
       /\ FindExistingMove(parent, move) = Null
       /\ ChessLegal(heap[parent].fen, move)
       /\ idCounter < MaxAdds
       /\ idCounter' = idCounter + 1
       /\ IF NewIsMainline(parent)
          THEN /\ heap' = (addr :> node) @@ heap
               /\ mainline' = Append(mainline, addr)
               /\ final' = addr
          ELSE /\ heap' = (addr :> node) @@
                          [heap EXCEPT ![parent].children = Append(@, addr)]
               /\ UNCHANGED <<mainline, final>>
       /\ nodeMap' = MapSet(nodeMap, node.id, addr)
       /\ UNCHANGED env
       /\ last' = Call("addMove", move, parentId, "created", addr, <<>>, <<>>)
       /\ UNCHANGED <<currentNode, currentIndex, gen>>

AddMove(move, parentId) ==
    \/ AddMoveMiss(move, parentId)
    \/ AddMoveExisting(move, parentId)
    \/ AddMoveThrow(move, parentId)
    \/ AddMoveCreate(move, parentId)

\* ------------------------------------------------------ updateClassification
\* the number of nodes that carry an analysis result
Classified == Cardinality({ a \in DOMAIN heap : heap[a].evaluatedMove # NoResult })

\* an updateClassification that takes the first line for the top-ranked one
UpdateClassification_FirstLine(nodeId, move) ==
    LET node == MapGet(nodeId)
    IN /\ node # Null => \/ heap[node].evaluatedMove # NoResult
                         \/ Classified < MaxClassified
       /\ IF node = Null THEN UNCHANGED heap
          ELSE heap' = [heap EXCEPT
                 ![node].classification = move.classification.type,
                 ![node].evaluatedMove = move,
                 ![node].evalScore = IF move.lines # <<>> THEN move.lines[1].score ELSE @,
                 ![node].evalType = IF move.lines = <<>> THEN @
                                    ELSE IF move.lines[1].type # "" THEN move.lines[1].type
                                    ELSE "cp"]
       /\ UNCHANGED env
       /\ last' = Call("updateClassification", NoMove, nodeId,
                       IF node = Null THEN "miss" ELSE "done", Null, <<>>, <<>>)
       /\ UNCHANGED <<mainline, nodeMap, currentNode, final, idCounter, currentIndex, gen>>

\* an updateClassification that also puts the cursor on the node
UpdateClassification_MovesCursor(nodeId, move) ==
    LET node == MapGet(nodeId)
    IN /\ node # Null => \/ heap[node].evaluatedMove # NoResult
                         \/ Classified < MaxClassified
       /\ IF node = Null THEN UNCHANGED <<heap, currentNode>>
          ELSE /\ heap' = [heap EXCEPT
                      ![node].classification = move.classification.type,
                      ![node].evaluatedMove = move]
               /\ currentNode' = node
       /\ UNCHANGED env
       /\ last' = Call("updateClassification", NoMove, nodeId,
                       IF node = Null THEN "miss" ELSE "done", Null, <<>>, <<>>)
       /\ UNCHANGED <<mainline, nodeMap, final, idCounter, currentIndex, gen>>

UpdateClassification(nodeId, move) ==
    LET node == MapGet(nodeId)
        tops == { i \in 1..Len(move.lines) : move.lines[i].id = 1 }
        \* move.lines.find(line => line.id === 1)
        topLine == move.lines[CHOOSE i \in tops : \A j \in tops : i <= j]
    IN /\ node # Null => \/ heap[node].evaluatedMove # NoResult
                         \/ Classified < MaxClassified
       /\ IF node = Null THEN UNCHANGED heap
          ELSE heap' = [heap EXCEPT
                 ![node].classification = move.classification.type,
                 ![node].evaluatedMove = move,
                 ![node].evalScore = IF tops # {} THEN topLine.score ELSE @,
                 ![node].evalType = IF tops = {} THEN @
                                    ELSE IF topLine.type # "" THEN topLine.type ELSE "cp"]
       /\ UNCHANGED env
       /\ last' = Call("updateClassification", NoMove, nodeId,
                       IF node = Null THEN "miss" ELSE "done", Null, <<>>, <<>>)
       /\ UNCHANGED <<mainline, nodeMap, currentNode, final, idCounter, currentIndex, gen>>

\* --------------------------------------------------------------- navigation
\* a navigateTo that stores whatever getNodeIndex returns
NavigateTo_AnyIndex(nodeId) ==
    LET node == MapGet(nodeId)
    IN /\ IF node # Null
          THEN /\ currentNode' = node
               /\ currentIndex' = GetNodeIndex(node)
          ELSE UNCHANGED <<currentNode, currentIndex>>
       /\ UNCHANGED env
       /\ last' = Call("navigateTo", NoMove, nodeId,
                       IF node = Null THEN "miss" ELSE "done", node, <<>>, <<>>)
       /\ UNCHANGED <<heap, mainline, nodeMap, final, idCounter, gen>>

NavigateTo(nodeId) ==
    LET node == MapGet(nodeId)
    IN /\ IF node # Null
          THEN /\ currentNode' = node
               /\ currentIndex' = IF GetNodeIndex(node) # -1 THEN GetNodeIndex(node)
                                  ELSE currentIndex
          ELSE UNCHANGED <<currentNode, currentIndex>>
       /\ UNCHANGED env
       /\ last' = Call("navigateTo", NoMove, nodeId,
                       IF node = Null THEN "miss" ELSE "done", node, <<>>, <<>>)
       /\ UNCHANGED <<heap, mainline, nodeMap, final, idCounter, gen>>

\* getNextMove that prefers the first child to the mainline successor
NextMoveOf_ChildFirst(cur) ==
    IF cur = Null THEN Null
    ELSE IF heap[cur].children # <<>> THEN heap[cur].children[1]
    ELSE IF GetNodeIndex(cur) # -1 /\ GetNodeIndex(cur) < Len(mainline) - 1
         THEN At(GetNodeIndex(cur) + 1)
    ELSE Null

\* getNextMove that knows the mainline only
NextMoveOf_MainlineOnly(cur) ==
    IF cur = Null THEN Null
    ELSE IF GetNodeIndex(cur) # -1 /\ GetNodeIndex(cur) < Len(mainline) - 1
         THEN At(GetNodeIndex(cur) + 1)
    ELSE Null

\* getNextMove() with the cursor on node cur
NextMoveOf(cur) ==
    IF cur = Null THEN Null
    ELSE IF GetNodeIndex(cur) # -1 /\ GetNodeIndex(cur) < Len(mainline) - 1
         THEN At(GetNodeIndex(cur) + 1)
    ELSE IF heap[cur].children # <<>> THEN heap[cur].children[1]
    ELSE Null

\* getPreviousMove that knows the mainline only
PreviousMoveOf_MainlineOnly(cur) ==
    IF cur = At(0) THEN Null
    ELSE IF GetNodeIndex(cur) > 0 THEN At(GetNodeIndex(cur) - 1)
    ELSE Null

\* getPreviousMove() with the cursor on node cur
PreviousMoveOf(cur) ==
    IF cur = At(0) THEN Null
    ELSE IF GetNodeIndex(cur) > 0 THEN At(GetNodeIndex(cur) - 1)
    ELSE IF heap[cur].parentId # NoId THEN MapGet(heap[cur].parentId)
    ELSE Null

RECURSIVE WalkUp(_, _)
\* the while loop of getPathToNode: unshift current, step to its parentId
WalkUp(current, path) ==
    IF current = Null \/ current = At(0) THEN path
    ELSE WalkUp(IF heap[current].parentId # NoId THEN MapGet(heap[current].parentId)
                ELSE Null,
                <<current>> \o path)

\* getPathToNode(nodeId)
PathToNode(nodeId) ==
    LET node == MapGet(nodeId)
    IN IF node = Null THEN <<>>
       ELSE IF GetNodeIndex(node) # -1
            THEN SubSeq(mainline, 2, GetNodeIndex(node) + 1)
       ELSE WalkUp(node, <<>>)

\* getMovesToNode(nodeId): the moves of the path's nodes that carry one
MovesToNode(nodeId) ==
    LET path == PathToNode(nodeId)
        keep == SelectSeq(path, LAMBDA a : heap[a].move # NoMove /\ heap[a].san # "")
    IN [i \in 1..Len(keep) |-> heap[keep[i]].move]

Unchanged == UNCHANGED <<heap, mainline, nodeMap, currentNode, final, idCounter, currentIndex, gen, env>>

GetNextMove ==
    /\ last' = Call("getNextMove", NoMove, NoId, "done", NextMoveOf(currentNode), <<>>, <<>>)
    /\ Unchanged

GetPreviousMove ==
    /\ last' = Call("getPreviousMove", NoMove, NoId, "done", PreviousMoveOf(currentNode), <<>>, <<>>)
    /\ Unchanged

GetPathToNode(nodeId) ==
    /\ last' = Call("getPathToNode", NoMove, nodeId, "done", Null, PathToNode(nodeId), <<>>)
    /\ Unchanged

GetMovesToNode(nodeId) ==
    /\ last' = Call("getMovesToNode", NoMove, nodeId, "done", Null, <<>>, MovesToNode(nodeId))
    /\ Unchanged

GetFinalMove ==
    /\ last' = Call("getFinalMove", NoMove, NoId, "done", final, <<>>, <<>>)
    /\ Unchanged

\* ------------------------------------------------------------------ Engine
\* the Engine object, with the outcomes the environment holds for one handler
\* run: failCreate Worker constructions and failPost postMessage calls throw
\* before the next ones succeed; fallen is the largest retry counter passed to
\* evaluate in the run, and cut says the run was cut off at MaxFallen
EngineState(failCreate, failPost) ==
    [busy |-> busy, currentResolve |-> currentResolve,
     currentReject |-> currentReject, currentDepth |-> currentDepth,
     worker |-> worker, workers |-> workers, promises |-> promises,
     failCreate |-> failCreate, failPost |-> failPost,
     threw |-> FALSE, fallen |-> 0, cut |-> FALSE]

\* the Engine object after a handler run
SetEngine(e) ==
    /\ busy' = e.busy
    /\ currentResolve' = e.currentResolve
    /\ currentReject' = e.currentReject
    /\ currentDepth' = e.currentDepth
    /\ worker' = e.worker
    /\ workers' = e.workers
    /\ promises' = e.promises

\* the record of an Engine call or event
EngineCall(op, via, e, promise, search, kind) ==
    [op |-> op, via |-> via, fallen |-> e.fallen, promise |-> promise,
     search |-> search, kind |-> kind]

RECURSIVE Settle(_, _, _)
\* resolve(value) or reject(err) of promise p: a settled promise stays as it
\* is; the promise that follows p through .then(resolve).catch(reject)
\* settles with it
Settle(ps, p, outcome) ==
    IF p = NoRef \/ ps[p].state # "pending" THEN ps
    ELSE Settle([ps EXCEPT ![p].state = outcome], ps[p].then, outcome)

\* this.worker.terminate(): the worker runs no search and dispatches no
\* event any more, so its listeners are dropped with it
TerminateWorker(e) ==
    IF e.worker = NoRef THEN e
    ELSE [e EXCEPT !.workers[e.worker].alive = FALSE,
                   !.workers[e.worker].searches = <<>>,
                   !.workers[e.worker].listeners = <<>>]

\* this.worker = new Worker(path), the two posts and the error listeners:
\* throws when the constructor or a post throws
TryWorker(e) ==
    IF e.failCreate > 0 THEN [e EXCEPT !.failCreate = @ - 1, !.threw = TRUE]
    ELSE IF e.failPost > 0 THEN [e EXCEPT !.failPost = @ - 1, !.threw = TRUE]
    ELSE [e EXCEPT !.workers = Append(@, WorkerObject),
                   !.worker = Len(e.workers) + 1]

\* fallbackToAlternativeEngine(fallen)
FallbackToAlternativeEngine(e, fallen) ==
    IF fallen > 1 THEN e
    ELSE LET first == TryWorker(TerminateWorker(e))
             second == TryWorker([first EXCEPT !.threw = FALSE])
         IN IF ~first.threw THEN first
            ELSE IF fallen < 1
                 THEN IF ~second.threw THEN second
                      ELSE [second EXCEPT !.worker = NoRef, !.threw = FALSE]
            ELSE [first EXCEPT !.worker = NoRef, !.threw = FALSE]

\* handleError(err)
HandleError(e) ==
    FallbackToAlternativeEngine(
        IF e.currentReject # NoRef
        THEN [e EXCEPT !.promises = Settle(@, e.currentReject, "rejected"),
                       !.currentResolve = NoRef, !.currentReject = NoRef]
        ELSE e, 0)

\* the promise of evaluate(..., fallen): pending, its timer set
PromiseObject(fallen) ==
    [state |-> "pending", fallen |-> fallen, timer |-> TRUE, then |-> NoRef]

RECURSIVE Evaluate(_, _)
\* evaluate(fen, targetDepth, verbose, progressCallback, fallen), up to the
\* return of its promise; new Worker(engines[0].path) throws for every
\* engines, which has no key 0
Evaluate(e, fallen) ==
    LET e0 == [e EXCEPT !.busy = TRUE, !.currentDepth = 0, !.fallen = fallen]
        p == Len(e0.promises) + 1
    IN IF fallen > MaxFallen THEN [e EXCEPT !.cut = TRUE]
       ELSE IF e0.worker = NoRef
            THEN Evaluate(FallbackToAlternativeEngine(e0, fallen), fallen + 1)
       ELSE IF e0.failPost > 0
            THEN Evaluate(FallbackToAlternativeEngine(
                              [e0 EXCEPT !.failPost = @ - 1], fallen), fallen + 1)
       ELSE [e0 EXCEPT !.promises = Append(@, PromiseObject(fallen)),
                       !.currentResolve = p,
                       !.currentReject = p,
                       !.workers[e0.worker].searches = Append(@, p),
                       !.workers[e0.worker].listeners = Append(@, p)]

\* removeEventListener("message", messageHandler) on this.worker
RemoveListener(e, p) ==
    [e EXCEPT !.workers[e.worker].listeners = SelectSeq(@, LAMBDA h : h # p)]

\* messageHandler(event) of the evaluate call that created promise p, for an
\* "info depth 1 ..." line (kind "info") or a "bestmove ..." line
MessageHandler(e, p, kind) ==
    IF kind = "info"
    THEN [e EXCEPT !.currentDepth = IF @ < 1 THEN 1 ELSE @]
    ELSE IF e.worker = NoRef THEN e
    ELSE [RemoveListener(e, p) EXCEPT
             !.busy = FALSE, !.currentResolve = NoRef, !.currentReject = NoRef,
             !.promises = Settle(@, p, "lines")]

RECURSIVE Dispatch(_, _, _, _)
\* the message listeners of worker w run in the order of their registration;
\* one that was removed in the meantime does not run
Dispatch(e, w, todo, kind) ==
    IF todo = <<>> THEN e
    ELSE LET p == Head(todo)
             on == \E i \in 1..Len(e.workers[w].listeners) : e.workers[w].listeners[i] = p
         IN Dispatch(IF on THEN MessageHandler(e, p, kind) ELSE e, w, Tail(todo), kind)

\* the sizes the run stays within
EngineBounded(e) ==
    /\ Len(e.promises) <= MaxPromises
    /\ Len(e.workers) <= MaxWorkers

\* engine.evaluate(fen, targetDepth) is called
EvaluateCall(failCreate, failPost) ==
    LET e == Evaluate(EngineState(failCreate, failPost), 0)
    IN /\ EngineBounded(e)
       /\ SetEngine(e)
       /\ last' = EngineCall("evaluate", IF e.cut THEN "cut" ELSE "done", e,
                             IF e.cut THEN NoRef ELSE Len(e.promises), NoRef, "")
       /\ UNCHANGED <<tree, obtained>>

\* engine.abort()
Abort ==
    LET e == EngineState(0, 0)
    IN /\ IF worker = NoRef
          THEN UNCHANGED <<busy, currentResolve, currentReject, promises>>
          ELSE /\ promises' = Settle(promises, currentResolve, "empty")
               /\ currentResolve' = NoRef
               /\ currentReject' = IF currentResolve # NoRef THEN NoRef ELSE currentReject
               /\ busy' = FALSE
       /\ last' = EngineCall("abort", IF worker = NoRef THEN "threw" ELSE "done", e,
                             currentResolve, NoRef, "")
       /\ UNCHANGED <<currentDepth, worker, workers, tree, obtained>>

\* engine.terminate()
Terminate ==
    LET e == EngineState(0, 0)
        aborted == [e EXCEPT !.promises = Settle(@, e.currentResolve, "empty"),
                             !.currentResolve = NoRef,
                             !.currentReject = IF e.currentResolve # NoRef THEN NoRef ELSE @,
                             !.busy = FALSE]
    IN /\ SetEngine(IF worker = NoRef THEN e
                    ELSE [TerminateWorker(aborted) EXCEPT !.worker = NoRef])
       /\ last' = EngineCall("terminate", IF worker = NoRef THEN "threw" ELSE "done",
                             e, currentResolve, NoRef, "")
       /\ UNCHANGED <<tree, obtained>>

\* worker w emits a line: a progress line of its running search ("info depth
\* 1 ...", followed here only while it changes currentDepth), or the bestmove
\* line that ends it
WorkerMessage(w, kind) ==
    LET e == EngineState(0, 0)
        search == Head(workers[w].searches)
        sent == IF kind = "bestmove"
                THEN [e EXCEPT !.workers[w].searches = Tail(@)] ELSE e
    IN /\ workers[w].alive
       /\ workers[w].searches # <<>>
       /\ kind = "info" => currentDepth < 1
       /\ SetEngine(Dispatch(sent, w, workers[w].listeners, kind))
       /\ last' = EngineCall("message", "done", e, currentResolve, search, kind)
       /\ UNCHANGED <<tree, obtained>>

\* worker w reports an error: the "error" listener and onerror both run
\* handleError
WorkerError(w, failCreate) ==
    LET e == HandleError(HandleError(EngineState(failCreate, 0)))
    IN /\ workers[w].alive
       /\ EngineBounded(e)
       /\ SetEngine(e)
       /\ last' = EngineCall("error", "done", e, currentReject, NoRef, "")
       /\ UNCHANGED <<tree, obtained>>

\* the safety timeout of promise p fires
Timeout(p, failCreate) ==
    LET e == [EngineState(failCreate, 0) EXCEPT !.promises[p].timer = FALSE]
        mine == e.busy /\ e.currentResolve = p
        retry == Evaluate(FallbackToAlternativeEngine(RemoveListener(e, p),
                                                      promises[p].fallen),
                          promises[p].fallen + 1)
        linked == IF retry.cut
                  THEN [retry EXCEPT !.promises = Settle(@, p, "rejected")]
                  ELSE [retry EXCEPT !.promises[Len(retry.promises)].then = p]
        gaveUp == [RemoveListener(e, p) EXCEPT
                      !.busy = FALSE, !.currentResolve = NoRef,
                      !.currentReject = NoRef,
                      !.promises = Settle(@, p, "empty")]
        after == IF ~mine \/ e.worker = NoRef THEN e
                 ELSE IF promises[p].fallen < 2 THEN linked ELSE gaveUp
    IN /\ promises[p].timer
       /\ EngineBounded(after)
       /\ SetEngine(after)
       /\ last' = EngineCall("timeout",
                             IF ~mine THEN "skip"
                             ELSE IF e.worker = NoRef THEN "threw"
                             ELSE IF promises[p].fallen >= 2 THEN "gaveUp"
                             ELSE IF retry.cut THEN "cut" ELSE "retry",
                             after, p, NoRef, "")
       /\ UNCHANGED <<tree, obtained>>

\* ------------------------------------------------------------ notation texts
\* the game the texts record: ply i (1-based) of a fixed line
LinePly(i) ==
    CHOOSE m \in Moves :
        m.san = (IF i % 4 = 1 THEN "e8=Q" ELSE IF i % 4 = 2 THEN "e5"
                 ELSE IF i % 4 = 3 THEN "e8=N+" ELSE "Qh4#")

\* the value of the j-th clock annotation of a text
ClockValue(j) ==
    IF j = 1 THEN "0:05:00" ELSE IF j = 2 THEN "0:04:58" ELSE "0:04:" \o ToString(58 - j)

\* what may follow a ply (or precede the first): nothing, a clock annotation,
\* a comment without one
Marks == {"none", "clk", "note"}

\* the comment for mark, the j-th annotation if it is one
CommentItems(mark, j) ==
    IF mark = "clk" THEN << [kind |-> "clk", text |-> ClockValue(j)] >>
    ELSE IF mark = "note" THEN << [kind |-> "note", text |-> "book"] >>
    ELSE <<>>

RECURSIVE PliesText(_, _, _, _)
\* the items of plies i..n, after j clock annotations
PliesText(i, n, marks, j) ==
    IF i > n THEN <<>>
    ELSE (IF i % 2 = 1 THEN << [kind |-> "num", text |-> ToString((i + 1) \div 2) \o "."] >>
          ELSE <<>>)
         \o << [kind |-> "san", text |-> LinePly(i).san] >>
         \o CommentItems(marks[i], j + 1)
         \o PliesText(i + 1, n, marks, IF marks[i] = "clk" THEN j + 1 ELSE j)

\* `{lead} 1. W {..} B {..} 2. W {..} ...` for n plies
MoveText(n, lead, marks) ==
    CommentItems(lead, 1) \o PliesText(1, n, marks, IF lead = "clk" THEN 1 ELSE 0)

Texts ==
    UNION { { MoveText(n, lead, marks) : lead \in Marks, marks \in [1..n -> Marks] }
            : n \in 0..MaxTextPlies }

\* ------------------------------------------------------------ specification
\* the ids a caller may pass: those of the tree, and one that is unknown
Ids == (DOMAIN nodeMap) \cup {UnknownId}

\* a game without clock annotations is loaded
Build == gen < MaxBuilds /\ \E h \in Histories : BuildFromPGN(h, <<>>)

\* a move is explored under some node
Add == \E m \in Moves : \E id \in Ids : AddMove(m, id)

\* a new move is explored while browsing: fewer nodes are created
BrowseAdd ==
    \E m \in Moves : \E id \in DOMAIN nodeMap :
        AddMoveCreate(m, id) /\ idCounter' <= BrowseAdds

\* a new move is explored while the cursor is moved and queried
NavAdd ==
    \E m \in Moves : \E id \in DOMAIN nodeMap :
        AddMoveCreate(m, id) /\ idCounter' <= NavAdds

\* the tree is built and grown
Next ==
    \/ Build
    \/ Add

Spec == Init /\ [][Next]_vars

\* the tree is built and grown, and paths are queried
NextPath ==
    \/ Build
    \/ Add
    \/ \E id \in Ids : GetPathToNode(id)
    \/ \E id \in Ids : GetMovesToNode(id)

SpecPath == Init /\ [][NextPath]_vars

\* the tree is built and grown, and the cursor is moved and queried
NextNav ==
    \/ Build
    \/ NavAdd
    \/ \E id \in Ids : NavigateTo(id)
    \/ GetNextMove
    \/ GetPreviousMove

SpecNav == Init /\ [][NextNav]_vars

\* the tree is built, grown and browsed while analysis results arrive
NextAnalysis ==
    \/ Build
    \/ BrowseAdd
    \/ \E id \in Ids : NavigateTo(id)
    \/ \E id \in Ids : UpdateClassification(id, BlunderResult)

SpecAnalysis == Init /\ [][NextAnalysis]_vars

\* the tree is built, grown and browsed, and every entry point that takes an
\* id is called with an id that no node carries
NextMiss ==
    \/ Build
    \/ \E m \in Moves : \E id \in Ids : AddMove(m, id) /\ idCounter' <= BrowseAdds
    \/ \E id \in DOMAIN nodeMap : NavigateTo(id)
    \/ NavigateTo(UnknownId)
    \/ \E r \in AnalysisResults : UpdateClassification(UnknownId, r)
    \/ GetPathToNode(UnknownId)
    \/ GetMovesToNode(UnknownId)

SpecMiss == Init /\ [][NextMiss]_vars

\* games are built and grown, and the final move is asked for
NextFinal ==
    \/ Build
    \/ BrowseAdd
    \/ GetFinalMove

SpecFinal == Init /\ [][NextFinal]_vars

\* a game is built and reviewed: results of every shape arrive, also
\* repeatedly for the same node
NextReview ==
    \/ Build
    \/ \E id \in Ids : \E r \in ReviewResults : UpdateClassification(id, r)

SpecReview == Init /\ [][NextReview]_vars

\* the analysis pipeline reads the id of a move node it is about to analyse
RequestAnalysis(nodeId) ==
    /\ nodeId \in DOMAIN nodeMap
    /\ nodeId # RootId
    /\ [id |-> nodeId, gen |-> gen] \notin obtained
    /\ obtained' = obtained \cup {[id |-> nodeId, gen |-> gen]}
    /\ last' = Call("requestAnalysis", NoMove, nodeId, "done", nodeMap[nodeId], <<>>, <<>>)
    /\ UNCHANGED <<tree, engine>>

\* games are built and grown while analysis is requested for their moves and
\* the results arrive later, possibly after another game was loaded
NextStale ==
    \/ Build
    \/ BrowseAdd
    \/ \E id \in DOMAIN nodeMap : RequestAnalysis(id)
    \/ \E k \in obtained : UpdateClassification(k.id, BlunderResult)

SpecStale == Init /\ [][NextStale]_vars

\* evaluations are started, aborted and timed out while the worker answers
\* or reports errors; every Worker construction and post succeeds
NextEngine ==
    \/ EvaluateCall(0, 0)
    \/ Abort
    \/ \E w \in 1..Len(workers) : \E kind \in {"info", "bestmove"} : WorkerMessage(w, kind)
    \/ \E w \in 1..Len(workers) : WorkerError(w, 0)
    \/ \E p \in 1..Len(promises) : Timeout(p, 0)

SpecEngine == Init /\ [][NextEngine]_vars

\* evaluations are started and aborted while the worker answers
NextAbort ==
    \/ EvaluateCall(0, 0)
    \/ Abort
    \/ \E w \in 1..Len(workers) : \E kind \in {"info", "bestmove"} : WorkerMessage(w, kind)

SpecAbort == Init /\ [][NextAbort]_vars

\* evaluations are started and time out or are answered, the engine is
\* terminated, and Worker constructions and posts may throw
NextRetry ==
    \/ \E fc, fp \in 0..MaxFailures : EvaluateCall(fc, fp)
    \/ Terminate
    \/ \E w \in 1..Len(workers) : WorkerMessage(w, "bestmove")
    \/ \E p \in 1..Len(promises) : \E fc \in 0..MaxFailures : Timeout(p, fc)

SpecRetry == Init /\ [][NextRetry]_vars

\* a newly constructed tree loads a game from a notation text
Load == last.op = "new" /\ \E pgn \in Texts : LoadPGN(pgn)

\* notation texts with and without clock annotations are loaded
NextClock == Load

SpecClock == Init /\ [][NextClock]_vars

\* =================================================================== claims
RECURSIVE Reach(_)
\* the nodes reachable from the set S through children lists
Reach(S) ==
    LET more == S \cup UNION { { heap[a].children[i] : i \in 1..Len(heap[a].children) } : a \in S }
    IN IF more = S THEN S ELSE Reach(more)

\* the nodes reachable from the tree: on the mainline or through children
TreeNodes == Reach({ mainline[i] : i \in 1..Len(mainline) })

\* the 0-based mainline positions that hold node a
PositionsOf(a) == { i \in 0..(Len(mainline) - 1) : At(i) = a }

\* the (from, to, promotion) identity of a move
MoveKey(m) == <<m.from, m.to, m.promotion>>

\* C1: a second addMove(move, parentId) with the same move and parent, right
\* after a call that returned a node, returns the same node (same id) and
\* leaves the mainline length, every child count, the id index and the id
\* counter unchanged.
C1_IdempotentInsert ==
    [][ ( /\ last.op = "addMove"
          /\ last.via \in {"created", "existing"}
          /\ last'.op = "addMove"
          /\ last'.move = last.move
          /\ last'.id = last.id )
        => ( /\ last'.node = last.node
             /\ heap'[last'.node].id = heap[last.node].id
             /\ Len(mainline') = Len(mainline)
             /\ DOMAIN heap' = DOMAIN heap
             /\ \A a \in DOMAIN heap : Len(heap'[a].children) = Len(heap[a].children)
             /\ nodeMap' = nodeMap
             /\ idCounter' = idCounter ) ]_vars

\* a repeated addMove has returned a variation node that an earlier addMove
\* with the same move and parent created
C1_Witness ==
    /\ last.op = "addMove"
    /\ last.via = "existing"
    /\ ~heap[last.node].isMainline
    /\ heap[last.node].parentId = last.id
    /\ MoveKey(heap[last.node].move) = MoveKey(last.move)

\* the successors of node p: its children, then its mainline successor
Successors(p) ==
    heap[p].children \o
    (IF \E i \in PositionsOf(p) : i < Len(mainline) - 1
     THEN << At((CHOOSE i \in PositionsOf(p) : i < Len(mainline) - 1) + 1) >>
     ELSE <<>>)

\* C2: no node has two successors (children, or the mainline successor) with
\* the same (from, to, promotion) move.
C2_NoDuplicateSiblings ==
    \A p \in TreeNodes :
      \A i, j \in 1..Len(Successors(p)) :
        i # j => MoveKey(heap[Successors(p)[i]].move) # MoveKey(heap[Successors(p)[j]].move)

\* a mainline node has a variation child next to its mainline successor, and a
\* repeated addMove under it has just been answered with an existing node
C2_Witness ==
    /\ last.op = "addMove"
    /\ last.via = "existing"
    /\ MapGet(last.id) # Null
    /\ Len(Successors(MapGet(last.id))) >= 2
    /\ heap[MapGet(last.id)].children # <<>>
    /\ heap[MapGet(last.id)].isMainline

\* C3: a node created by addMove is flagged mainline and appended to the
\* mainline exactly when its parent is the last element of the mainline;
\* otherwise it is appended to the parent's children and the mainline is
\* left unchanged.
C3_MainlineEligibility ==
    [][ (last'.op = "addMove" /\ last'.via = "created")
        => LET p == MapGet(last'.id)
               n == last'.node
               atTip == heap[p].isMainline /\ p = mainline[Len(mainline)]
           IN /\ n \notin DOMAIN heap
              /\ heap'[n].isMainline <=> atTip
              /\ atTip => /\ mainline' = Append(mainline, n)
                          /\ heap'[p].children = heap[p].children
              /\ ~atTip => /\ mainline' = mainline
                           /\ heap'[p].children = Append(heap[p].children, n) ]_vars

\* addMove has just created a variation under a mainline node that is not
\* the tip, on a mainline that an earlier addMove extended
C3_Witness ==
    /\ last.op = "addMove"
    /\ last.via = "created"
    /\ ~heap[last.node].isMainline
    /\ heap[MapGet(last.id)].isMainline
    /\ \E i \in 1..(Len(mainline) - 1) : heap[At(i)].parentId # NoId

\* the node under which node a was inserted: the mainline predecessor of a
\* mainline node, the node named by parentId of a variation node
InsertedUnder(a) ==
    IF \E i \in PositionsOf(a) : i > 0
    THEN At((CHOOSE i \in PositionsOf(a) : i > 0) - 1)
    ELSE MapGet(heap[a].parentId)

\* C4: getPathToNode(id) returns mainline[1..k] for the mainline node at
\* index k, and for a variation node the complete ancestor chain from the
\* first ply after root down to the node, root excluded.
C4_PathToNode ==
    (last.op = "getPathToNode" /\ last.id \in DOMAIN nodeMap)
    => LET n == nodeMap[last.id]
           path == last.path
       IN /\ \A i \in 1..Len(path) : path[i] # At(0)
          /\ IF PositionsOf(n) # {}
             THEN \E k \in PositionsOf(n) :
                    /\ Len(path) = k
                    /\ \A i \in 1..k : path[i] = At(i)
             ELSE /\ path # <<>>
                  /\ path[Len(path)] = n
                  /\ InsertedUnder(path[1]) = At(0)
                  /\ \A i \in 1..(Len(path) - 1) : InsertedUnder(path[i + 1]) = path[i]

\* C5: replaying getMovesToNode(id) from the position stored on root yields
\* the position stored on the node.
C5_RoundTrip ==
    (last.op = "getMovesToNode" /\ last.id \in DOMAIN nodeMap)
    => ChessReplay(heap[At(0)].fen, last.moves) = heap[nodeMap[last.id]].fen

\* C6: from a non-root mainline node n, getPreviousMove(), navigateTo(its
\* id), getNextMove() leads back to n.
C6_NavigationSymmetry ==
    \A i \in 1..(Len(mainline) - 1) :
      LET n == At(i)
          p == PreviousMoveOf(n)
      IN /\ p # Null
         /\ NextMoveOf(MapGet(heap[p].id)) = n

\* getNextMove has just returned the mainline successor n of a cursor node
\* that carries variation children and is what getPreviousMove gives from n
C6_Witness ==
    /\ last.op = "getNextMove"
    /\ last.node # Null
    /\ heap[last.node].isMainline
    /\ heap[currentNode].children # <<>>
    /\ currentNode # At(0)
    /\ PreviousMoveOf(last.node) = currentNode

\* C7: buildFromPGN on a history of N plies leaves a mainline of N+1 nodes,
\* root first, all flagged mainline and registered in the id index, the node
\* at index i >= 1 with moveNumber (i+1)/2.
C7_BuildMainline ==
    (last.op = "buildFromPGN" /\ last.via = "done")
    => /\ Len(mainline) = Len(last.moves) + 1
       /\ heap[At(0)].id = RootId
       /\ \A i \in 0..(Len(mainline) - 1) :
            /\ heap[At(i)].isMainline
            /\ MapGet(heap[At(i)].id) = At(i)
            /\ i >= 1 => /\ heap[At(i)].moveNumber = i + 1
                         /\ heap[At(i)].move = last.moves[i]
       /\ Cardinality(DOMAIN nodeMap) = Len(mainline)

\* a history of two plies has just been built over an earlier tree
C7_Witness ==
    /\ last.op = "buildFromPGN"
    /\ last.via = "done"
    /\ Len(last.moves) >= 2
    /\ gen >= 2
    /\ heap[At(2)].moveNumber = 3

\* C8: the mainline has the root at index 0 and only there, and the node at
\* index i > 0 has parentIndex i - 1.
C8_MainlineStructure ==
    /\ Len(mainline) >= 1
    /\ heap[At(0)].id = RootId
    /\ MapGet(RootId) = At(0)
    /\ \A i \in 1..(Len(mainline) - 1) :
         /\ At(i) # At(0)
         /\ heap[At(i)].id # RootId
         /\ heap[At(i)].parentIndex = i - 1

\* the mainline holds a replayed node, a node appended by addMove, and a
\* mainline node with a variation child
C8_Witness ==
    /\ Len(mainline) >= 3
    /\ heap[At(1)].parentId = NoId
    /\ heap[At(Len(mainline) - 1)].parentId # NoId
    /\ \E i \in 0..(Len(mainline) - 1) : heap[At(i)].children # <<>>

\* C9: every node reachable from the tree is registered in the id index
\* under its own id, the index holds nothing else, and no two nodes share an id.
C9_IdIndex ==
    /\ \A a \in TreeNodes : MapGet(heap[a].id) = a
    /\ \A id \in DOMAIN nodeMap : nodeMap[id] \in TreeNodes /\ heap[nodeMap[id]].id = id
    /\ \A a, b \in TreeNodes : a # b => heap[a].id # heap[b].id

\* two nodes under different parents, one of them a variation, have the same
\* move number, side and move text, and a second variation is registered
C9_Witness ==
    \E a, b \in TreeNodes :
      /\ a # b
      /\ ~heap[a].isMainline
      /\ heap[a].moveNumber = heap[b].moveNumber
      /\ heap[a].san = heap[b].san
      /\ InsertedUnder(a) # InsertedUnder(b)
      /\ \E c \in TreeNodes \ {a} : ~heap[c].isMainline

\* C10: between two rebuilds no addMove, navigateTo or updateClassification
\* call removes an existing node from the id index or changes its id, its
\* position or its isMainline flag; and a node is flagged mainline exactly
\* when it is an element of the mainline sequence.
C10_NodesFrozen ==
    /\ [](\A a \in TreeNodes : heap[a].isMainline <=> PositionsOf(a) # {})
    /\ [][ gen' = gen
           => \A a \in TreeNodes :
                /\ a \in DOMAIN heap'
                /\ heap'[a].id = heap[a].id
                /\ heap'[a].fen = heap[a].fen
                /\ heap'[a].isMainline = heap[a].isMainline
                /\ heap[a].id \in DOMAIN nodeMap'
                /\ nodeMap'[heap[a].id] = a ]_vars

\* an analysis result has just been stored while the cursor is off the root
\* and a mainline node carries a variation
C10_Witness ==
    /\ last.op = "updateClassification"
    /\ last.via = "done"
    /\ currentNode # At(0)
    /\ \E a \in TreeNodes : ~heap[a].isMainline /\ heap[InsertedUnder(a)].isMainline
    /\ \E a \in TreeNodes : heap[a].isMainline /\ heap[a].classification # ""

\* the entry points that take a node id
IdEntryPoints ==
    {"addMove", "navigateTo", "getPathToNode", "getMovesToNode", "updateClassification"}

\* C11: addMove, navigateTo, getPathToNode, getMovesToNode and
\* updateClassification called with an id that is not in the id index do not
\* raise, return null / an empty path / nothing, and leave the mainline, the
\* children lists, the id index, the id counter, the current node and the
\* current index unchanged.
C11_SoftMiss ==
    [][ (last'.op \in IdEntryPoints /\ last'.id \notin DOMAIN nodeMap)
        => /\ last'.via # "threw"
           /\ last'.node = Null
           /\ last'.path = <<>>
           /\ last'.moves = <<>>
           /\ UNCHANGED <<heap, mainline, nodeMap, idCounter, currentNode, currentIndex>> ]_vars

\* updateClassification has just been called with an unknown id on a tree
\* with a variation, the cursor off the root
C11_Witness ==
    /\ last.op = "updateClassification"
    /\ last.id \notin DOMAIN nodeMap
    /\ last.via = "miss"
    /\ currentNode # At(0)
    /\ \E a \in TreeNodes : ~heap[a].isMainline

\* the fields of a node that updateClassification does not own
Structure(n) ==
    [id |-> n.id, moveNumber |-> n.moveNumber, san |-> n.san, move |-> n.move,
     fen |-> n.fen, children |-> n.children, isMainline |-> n.isMainline,
     parentIndex |-> n.parentIndex, parentId |-> n.parentId, clock |-> n.clock]

\* the structural invariants of the tree
StructuralInvariants ==
    /\ C2_NoDuplicateSiblings
    /\ C8_MainlineStructure
    /\ C9_IdIndex

\* C12: updateClassification changes only the classification / evaluation
\* fields of the node it addresses: the mainline, every children list, the id
\* index, every node's id, position, move and isMainline flag, the id counter
\* and the cursor are unchanged, and the structural invariants that held
\* before the call hold after it.
C12_ClassificationFrame ==
    [][ last'.op = "updateClassification"
        => /\ UNCHANGED <<mainline, nodeMap, idCounter, currentNode, currentIndex>>
           /\ DOMAIN heap' = DOMAIN heap
           /\ \A a \in DOMAIN heap :
                /\ Structure(heap'[a]) = Structure(heap[a])
                /\ a # MapGet(last'.id) => heap'[a] = heap[a]
           /\ StructuralInvariants => StructuralInvariants' ]_vars

\* a result has just been stored on a variation node while the cursor is on
\* another node, off the root
C12_Witness ==
    /\ last.op = "updateClassification"
    /\ last.via = "done"
    /\ ~heap[MapGet(last.id)].isMainline
    /\ heap[MapGet(last.id)].classification = "blunder"
    /\ currentNode # At(0)
    /\ currentNode # MapGet(last.id)

\* C13: getNextMove() returns the mainline successor when the current node
\* is on the mainline and is not its last element (also when it has
\* variation children), otherwise the current node's first recorded child,
\* or null when it has no children; the cursor does not move.
C13_GetNextMove ==
    [][ last'.op = "getNextMove"
        => /\ UNCHANGED <<currentNode, currentIndex>>
           /\ last'.node =
                IF \E i \in PositionsOf(currentNode) : i < Len(mainline) - 1
                THEN At((CHOOSE i \in PositionsOf(currentNode) : i < Len(mainline) - 1) + 1)
                ELSE IF heap[currentNode].children # <<>>
                     THEN heap[currentNode].children[1]
                ELSE Null ]_vars

\* getNextMove has just returned the first child of a variation node
C13_Witness ==
    /\ last.op = "getNextMove"
    /\ ~heap[currentNode].isMainline
    /\ heap[currentNode].children # <<>>
    /\ last.node = heap[currentNode].children[1]

\* the node that holds node a as a successor: in its children list, or as
\* its mainline successor
ParentsOf(a) ==
    { p \in TreeNodes : \E i \in 1..Len(Successors(p)) : Successors(p)[i] = a }

\* C14: getPreviousMove() returns null at root, the mainline predecessor for
\* the mainline node at index i > 0, and for a variation node the node
\* registered under its parent id: for every non-root node exactly the node
\* under which it was inserted; the cursor does not move.
C14_GetPreviousMove ==
    [][ last'.op = "getPreviousMove"
        => /\ UNCHANGED <<currentNode, currentIndex>>
           /\ IF currentNode = At(0) THEN last'.node = Null
              ELSE /\ ParentsOf(currentNode) = {last'.node}
                   /\ \A i \in PositionsOf(currentNode) : last'.node = At(i - 1)
                   /\ PositionsOf(currentNode) = {}
                        => last'.node = MapGet(heap[currentNode].parentId) ]_vars

\* getPreviousMove has just returned root for a variation started at root
C14_Witness ==
    /\ last.op = "getPreviousMove"
    /\ ~heap[currentNode].isMainline
    /\ last.node = At(0)
    /\ \E i \in 1..Len(heap[At(0)].children) : heap[At(0)].children[i] = currentNode

\* the offsets of the move tokens of a notation text, in text order
PlyOffsets(pgn) == SelectSeq([p \in 1..Len(pgn) |-> p], LAMBDA p : pgn[p].kind = "san")

\* the offsets of the clock annotations of a notation text, in text order
ClockOffsets(pgn) == SelectSeq([p \in 1..Len(pgn) |-> p], LAMBDA p : pgn[p].kind = "clk")

\* each of the first k plies of the text is directly followed by a clock
\* annotation, and the text has no other clock annotation
AnnotatedPrefix(pgn, k) ==
    /\ k <= Len(PlyOffsets(pgn))
    /\ Len(ClockOffsets(pgn)) = k
    /\ \A i \in 1..k : ClockOffsets(pgn)[i] = PlyOffsets(pgn)[i] + 1

\* C15: for a text whose first k plies are each directly followed by one
\* clock annotation and whose other plies have none, extractClockAnnotations
\* yields exactly k records, record i with moveIndex i, side white for even
\* i and black for odd i, and the value of the i-th annotation.
C15_AnnotationAlignment ==
    (last.op = "buildFromPGN" /\ "pgn" \in DOMAIN last)
    => \A k \in 0..Len(last.pgn) :
         AnnotatedPrefix(last.pgn, k)
         => /\ Len(last.clockData) = k
            /\ \A i \in 0..(k - 1) :
                 last.clockData[i + 1] = ClockRec(i, last.pgn[ClockOffsets(last.pgn)[i + 1]].text)

\* `1. W {[%clk 0:05:00]} B {[%clk 0:04:58]} 2. W` has just been loaded
C15_Witness ==
    /\ last.op = "buildFromPGN"
    /\ "pgn" \in DOMAIN last
    /\ Len(PlyOffsets(last.pgn)) = 3
    /\ AnnotatedPrefix(last.pgn, 2)
    /\ Len(last.pgn) = 7
    /\ last.clockData = << ClockRec(0, "0:05:00"), ClockRec(1, "0:04:58") >>
    /\ heap[At(2)].clock = "0:04:58"
    /\ heap[At(3)].clock = ""

\* C16: when the text holds no clock annotation, extractClockAnnotations
\* returns an empty list before any move token is scanned, and buildFromPGN
\* attaches a clock value to no node.
C16_NoAnnotations ==
    (last.op = "buildFromPGN" /\ "pgn" \in DOMAIN last /\ ClockOffsets(last.pgn) = <<>>)
    => /\ last.clockData = <<>>
       /\ last.scanned = 0
       /\ last.via = "done"
       /\ \A a \in DOMAIN heap : heap[a].clock = ""

\* a text of three plies with comments but no clock annotation has just
\* been loaded
C16_Witness ==
    /\ last.op = "buildFromPGN"
    /\ "pgn" \in DOMAIN last
    /\ ClockOffsets(last.pgn) = <<>>
    /\ \E p \in 1..Len(last.pgn) : last.pgn[p].kind = "note"
    /\ Len(mainline) = 4

RECURSIVE NearestFollowing(_, _, _)
\* for the plies i.. of the text, in text order, the ordinal of the earliest
\* clock annotation that follows the ply and that no earlier ply consumed
\* (0 when there is none)
NearestFollowing(pgn, i, consumed) ==
    IF i > Len(PlyOffsets(pgn)) THEN <<>>
    ELSE LET following == { j \in 1..Len(ClockOffsets(pgn)) :
                               /\ j \notin consumed
                               /\ ClockOffsets(pgn)[j] > PlyOffsets(pgn)[i] }
             j == IF following = {} THEN 0
                  ELSE CHOOSE x \in following : \A y \in following : x <= y
         IN <<j>> \o NearestFollowing(pgn, i + 1, consumed \cup {j})

\* the record extractClockAnnotations returned for ply i (0-based), if any
HasRecord(clockData, i) == i < Len(clockData) /\ ~clockData[i + 1].hole

\* C17: every move token, in text order, receives a record carrying the
\* earliest annotation after its offset that no earlier token consumed; a
\* token gets no record only when no unconsumed annotation follows it; and
\* no annotation is assigned to more than one ply.
C17_NearestFollowing ==
    (last.op = "buildFromPGN" /\ "pgn" \in DOMAIN last)
    => LET want == NearestFollowing(last.pgn, 1, {})
       IN /\ \A i \in 0..(Len(want) - 1) :
               IF want[i + 1] = 0 THEN ~HasRecord(last.clockData, i)
               ELSE /\ HasRecord(last.clockData, i)
                    /\ last.clockData[i + 1].clock
                         = last.pgn[ClockOffsets(last.pgn)[want[i + 1]]].text
          /\ \A i, k \in 0..(Len(last.clockData) - 1) :
               (i # k /\ HasRecord(last.clockData, i) /\ HasRecord(last.clockData, k))
               => last.clockData[i + 1].clock # last.clockData[k + 1].clock

\* C18: after buildFromPGN returns, whatever the tree was before, the
\* mainline and the id index hold exactly a fresh root plus the N replayed
\* nodes, every node has an empty children list and no classification, no
\* node of the prior tree is reachable from the mainline, the index or the
\* cursor, and the cursor is on the new root with current index 0.
C18_RebuildDiscards ==
    [][ (last'.op = "buildFromPGN" /\ last'.via = "done")
        => LET new == { mainline'[i] : i \in 1..Len(mainline') }
           IN /\ Len(mainline') = Len(last'.moves) + 1
              /\ Cardinality(new) = Len(mainline')
              /\ new \cap DOMAIN heap = {}
              /\ { nodeMap'[id] : id \in DOMAIN nodeMap' } = new
              /\ DOMAIN nodeMap' = { heap'[a].id : a \in new }
              /\ \A a \in new :
                   /\ nodeMap'[heap'[a].id] = a
                   /\ heap'[a].children = <<>>
                   /\ heap'[a].classification = ""
                   /\ heap'[a].evaluatedMove = NoResult
              /\ heap'[mainline'[1]].id = RootId
              /\ heap'[mainline'[1]].fen = StartFen
              /\ \A i \in 2..Len(mainline') : heap'[mainline'[i]].move = last'.moves[i - 1]
              /\ currentNode' = mainline'[1]
              /\ currentIndex' = 0 ]_vars

\* a game has just been rebuilt over a tree that addMove had grown
C18_Witness ==
    /\ last.op = "buildFromPGN"
    /\ last.via = "done"
    /\ gen >= 2
    /\ idCounter >= 1
    /\ Len(mainline) >= 2

\* the positions of the lines with id 1 in a result's line list
TopLines(result) == { i \in 1..Len(result.lines) : result.lines[i].id = 1 }

\* C19: updateClassification on a known node always stores the result's
\* classification label; score and score kind of the node are overwritten
\* exactly when the result's line list holds a line with id 1, and then with
\* that line's score and kind (cp when the line has none); otherwise the
\* node keeps its previous score and kind.
C19_TopLineOnly ==
    [][ (last'.op = "updateClassification" /\ last'.via = "done")
        => LET n == MapGet(last'.id)
               result == heap'[n].evaluatedMove
               top == result.lines[CHOOSE i \in TopLines(result) :
                                     \A j \in TopLines(result) : i <= j]
           IN /\ heap'[n].classification = result.classification.type
              /\ IF TopLines(result) # {}
                 THEN /\ heap'[n].evalScore = top.score
                      /\ heap'[n].evalType = IF top.type = "" THEN "cp" ELSE top.type
                 ELSE /\ heap'[n].evalScore = heap[n].evalScore
                      /\ heap'[n].evalType = heap[n].evalType ]_vars

\* a result whose lines hold no id-1 line has just been stored on a node
\* that keeps the score and kind of an earlier result
C19_Witness ==
    /\ last.op = "updateClassification"
    /\ last.via = "done"
    /\ heap[MapGet(last.id)].evaluatedMove = InaccuracyResult
    /\ heap[MapGet(last.id)].classification = "inaccuracy"
    /\ heap[MapGet(last.id)].evalScore = 4
    /\ heap[MapGet(last.id)].evalType = "mate"

\* C20: after any sequence of buildFromPGN and addMove calls, getFinalMove()
\* returns the last element of the mainline when the mainline holds at least
\* one move and null when it holds only root, and never a node that is
\* absent from the id index.
C20_FinalMove ==
    last.op = "getFinalMove"
    => /\ last.node = IF Len(mainline) >= 2 THEN mainline[Len(mainline)] ELSE Null
       /\ last.node # Null => \E id \in DOMAIN nodeMap : nodeMap[id] = last.node

\* C21: the current node is registered in the id index of the current
\* tree, the current index is a valid index of the mainline, mainline[current
\* index] is the current node whenever the current node is on the mainline,
\* and navigateTo to a variation node leaves the current index as it was.
C21_CursorValid ==
    /\ [](/\ \E id \in DOMAIN nodeMap : nodeMap[id] = currentNode
          /\ currentNode \in TreeNodes
          /\ currentIndex \in 0..(Len(mainline) - 1)
          /\ PositionsOf(currentNode) # {} => At(currentIndex) = currentNode)
    /\ [][ (last'.op = "navigateTo" /\ last'.via = "done"
            /\ PositionsOf(last'.node) = {})
           => /\ currentNode' = last'.node
              /\ currentIndex' = currentIndex ]_vars

\* navigateTo has just put the cursor on a variation node, after the cursor
\* had been on a mainline node other than root
C21_Witness ==
    /\ last.op = "navigateTo"
    /\ last.via = "done"
    /\ currentNode = last.node
    /\ ~heap[currentNode].isMainline
    /\ currentIndex > 0
    /\ gen >= 2

\* the ids the pipeline holds only from a tree that has since been rebuilt
StaleIds ==
    { k.id : k \in { o \in obtained : o.gen < gen } }
        \ { k.id : k \in { o \in obtained : o.gen = gen } }

\* C22: an updateClassification call that carries a node id obtained from
\* the tree before a buildFromPGN rebuild, delivered after the rebuild, is
\* dropped: it finds no node and sets no field of any node.
C22_StaleDropped ==
    [][ (last'.op = "updateClassification" /\ last'.id \in StaleIds)
        => /\ last'.via = "miss"
           /\ heap' = heap ]_vars

\* C23: between handler runs of the Engine (evaluate, worker message, worker
\* error, abort, timeout), busy is true if and only if an evaluation promise
\* is pending, i.e. currentResolve is non-null; in particular busy is false
\* after handleError has rejected the pending evaluation.
C23_BusyFlag ==
    /\ busy <=> (currentResolve # NoRef)
    /\ (last.op = "error" /\ last.promise # NoRef) => ~busy

\* the message listeners registered on some live worker
Listening ==
    UNION { { workers[w].listeners[i] : i \in 1..Len(workers[w].listeners) }
            : w \in { v \in 1..Len(workers) : workers[v].alive } }

\* C24: when evaluation A was resolved with an empty list by abort() and a
\* new evaluation B is pending, the bestmove line the worker emits for the
\* aborted search A does not settle B's promise and does not clear busy or
\* currentResolve, and A's message handler does not react to it.
C24_AbortIsolation ==
    [][ (/\ last'.op = "message"
         /\ last'.kind = "bestmove"
         /\ promises[last'.search].state = "empty"
         /\ currentResolve # NoRef
         /\ currentResolve # last'.search
         /\ promises[currentResolve].state = "pending")
        => /\ promises'[currentResolve].state = "pending"
           /\ currentResolve' = currentResolve
           /\ busy' = busy
           /\ last'.search \notin Listening ]_vars

\* C25: one evaluate() call performs a bounded number of fallback retries:
\* the retry counter fallen passed to the recursive evaluate calls never
\* exceeds 2, whether the retry comes from the timeout or from a worker that
\* is missing or cannot be created or posted to, so that the call comes to
\* an end and its promise can settle.
C25_RetryBound ==
    last.op \in {"evaluate", "timeout"} => (last.fallen <= 2 /\ last.via # "cut")

====
